---- MODULE Spec2Model ----
(***************************************************************************)
(* A model of src/util/heap.h: heap<LT>, an indexed binary min-heap of     *)
(* ints.  m_keys is the position array (slot 0 holds the sentinel -1),     *)
(* m_indices the index array (key -> slot, 0 = absent).  Both are modelled *)
(* as functions over 0..size-1, so that slots and keys are the C++ ones.   *)
(* The comparator LT is modelled by its state: a priority per key, with    *)
(* less_than(v1, v2) iff the priority of v1 is smaller.                    *)
(***************************************************************************)
EXTENDS Integers, Sequences, FiniteSets, TLC

\* Largest capacity of a heap whose priorities may change (Spec, SpecViol, SpecReserve).
MaxCap == 3
\* Priorities are 0..MaxPrio.
MaxPrio == 1
\* Largest capacity of a heap under a fixed comparator (SpecFix).
FixCap == 6
\* Largest capacity of each of the two heaps that are swapped (SpecSwap).
SwapCap == 2

VARIABLES
    m_keys,     \* this heap: the position array
    m_indices,  \* this heap: the index array
    prio,       \* this heap: the state of its comparator (key -> priority)
    o_keys,     \* a second heap: the position array
    o_indices,  \* a second heap: the index array
    o_prio,     \* a second heap: the state of its comparator
    ret,        \* what the last call of this heap returned (-1: nothing)
    o_ret,      \* the same for the second heap
    result,     \* what the last call appended to its result vector (find_le; else empty)
    op,         \* the last call: <<name, argument>>
    present,    \* history: the keys inserted and not removed since
    out,        \* history: the keys returned by the current run of erase_min calls
    start,      \* history: the keys present when that run started
    scen,       \* history: how many steps of the documented scenario were just made (-1: off it)
    reserved,   \* history: the side-by-side run has made its reserve(n)
    debug,      \* the build: TRUE when the assertions are compiled in
    status,     \* "ok"; "assertion" once an assertion has failed; "unchecked" once a
                \* call outside its precondition has run
    pc,         \* the loop the call in progress is in: "move_up", "move_down", "find_le";
                \* "idle" between calls (a call taken in one step leaves it "idle")
    l_idx,      \* move_up / move_down: the local idx
    l_key,      \* move_up / move_down: the local key
    l_i,        \* heapify: the local i (0 outside heapify)
    l_todo,     \* find_le: the local todo
    cmp         \* the keys of the heap that the last loop step passed to less_than

vars == <<m_keys, m_indices, prio, o_keys, o_indices, o_prio, ret, o_ret,
          result, op, present, out, start, scen, reserved, debug, status,
          pc, l_idx, l_key, l_i, l_todo, cmp>>

-----------------------------------------------------------------------------
(* int_vector, as far as the heap uses it *)

size(v) == Cardinality(DOMAIN v)

empty_vector == [i \in {} |-> 0]

push_back(v, x) == [i \in 0..size(v) |-> IF i < size(v) THEN v[i] ELSE x]

pop_back(v) == [i \in 0..(size(v) - 2) |-> v[i]]

back(v) == v[size(v) - 1]

resize(v, s, elem) == [i \in 0..(s - 1) |-> IF i < size(v) THEN v[i] ELSE elem]

-----------------------------------------------------------------------------
(* heap<LT>: a heap value is [m_keys, m_indices]; lt is the comparator's state *)

left(i) == 2 * i

right(i) == 2 * i + 1

parent(i) == i \div 2

less_than(lt, v1, v2) == lt[v1] < lt[v2]

is_valid_value(h, v) == v >= 0 /\ v < size(h.m_indices)

RECURSIVE check_invariant_core(_, _, _)
check_invariant_core(h, idx, lt) ==
    IF idx < size(h.m_keys)
    THEN /\ h.m_indices[h.m_keys[idx]] = idx
         /\ (parent(idx) = 0 \/ ~less_than(lt, h.m_keys[idx], h.m_keys[parent(idx)]))
         /\ check_invariant_core(h, left(idx), lt)
         /\ check_invariant_core(h, right(idx), lt)
    ELSE TRUE

check_invariant(h, lt) == check_invariant_core(h, 1, lt)

\* move_up's loop without line 90: the parent key moves down a slot and its index
\* entry is left as it was.
RECURSIVE move_up_loop_stale(_, _, _, _)
move_up_loop_stale(h, idx, key, lt) ==
    LET parent_idx == parent(idx)
        parent_key == h.m_keys[parent_idx]
    IN  IF parent_idx = 0 \/ ~less_than(lt, key, parent_key)
        THEN [m_keys    |-> [h.m_keys EXCEPT ![idx] = key],
              m_indices |-> [h.m_indices EXCEPT ![key] = idx]]
        ELSE move_up_loop_stale([m_keys    |-> [h.m_keys EXCEPT ![idx] = parent_key],
                                 m_indices |-> h.m_indices],
                                parent_idx, key, lt)

\* move_up's loop: key is the moving key, idx the slot it would take.
RECURSIVE move_up_loop(_, _, _, _)
move_up_loop(h, idx, key, lt) ==
    LET parent_idx == parent(idx)
        parent_key == h.m_keys[parent_idx]
    IN  IF parent_idx = 0 \/ ~less_than(lt, key, parent_key)
        THEN [m_keys    |-> [h.m_keys EXCEPT ![idx] = key],
              m_indices |-> [h.m_indices EXCEPT ![key] = idx]]
        ELSE move_up_loop([m_keys    |-> [h.m_keys EXCEPT ![idx] = parent_key],
                           m_indices |-> [h.m_indices EXCEPT ![parent_key] = idx]],
                          parent_idx, key, lt)

move_up(h, idx, lt) == move_up_loop(h, idx, h.m_keys[idx], lt)

\* min_child that never looks at the right child.
min_child_left(h, idx, lt) == left(idx)

\* The child move_down compares the moving key with: the right one only when it
\* exists and sorts strictly before the left one.
min_child(h, idx, lt) ==
    IF right(idx) < size(h.m_keys)
       /\ less_than(lt, h.m_keys[right(idx)], h.m_keys[left(idx)])
    THEN right(idx)
    ELSE left(idx)

\* move_down's test with its arguments exchanged.
move_down_stops_swapped(lt, key, min_key) == less_than(lt, min_key, key)

\* Whether move_down's loop stops with the moving key above the child min_key.
move_down_stops(lt, key, min_key) == less_than(lt, key, min_key)

RECURSIVE move_down_loop(_, _, _, _)
move_down_loop(h, idx, key, lt) ==
    IF left(idx) >= size(h.m_keys)
    THEN [m_keys    |-> [h.m_keys EXCEPT ![idx] = key],
          m_indices |-> [h.m_indices EXCEPT ![key] = idx]]
    ELSE LET min_idx == min_child(h, idx, lt)
             min_key == h.m_keys[min_idx]
         IN  IF move_down_stops(lt, key, min_key)
             THEN [m_keys    |-> [h.m_keys EXCEPT ![idx] = key],
                   m_indices |-> [h.m_indices EXCEPT ![key] = idx]]
             ELSE move_down_loop([m_keys    |-> [h.m_keys EXCEPT ![idx] = min_key],
                                  m_indices |-> [h.m_indices EXCEPT ![min_key] = idx]],
                                 min_idx, key, lt)

move_down(h, idx, lt) == move_down_loop(h, idx, h.m_keys[idx], lt)

\* set_bounds resizing the index array to one more than its argument.
set_bounds_beyond(h, s) == [h EXCEPT !.m_indices = resize(h.m_indices, s + 1, 0)]

set_bounds(h, s) == [h EXCEPT !.m_indices = resize(h.m_indices, s, 0)]

\* heap(int s, const LT & lt)
heap(s) == set_bounds([m_keys |-> push_back(empty_vector, -1), m_indices |-> empty_vector], s)

empty(h) == size(h.m_keys) = 1

contains(h, key) == key < size(h.m_indices) /\ h.m_indices[key] # 0

reset(h) ==
    IF empty(h)
    THEN h
    ELSE [m_keys    |-> push_back(empty_vector, -1),
          m_indices |-> [k \in DOMAIN h.m_indices |-> 0]]

\* heapify's loop stopping above the root: slot 1 is never sifted.
RECURSIVE heapify_loop_above_root(_, _, _)
heapify_loop_above_root(h, i, lt) ==
    IF i > 1 THEN heapify_loop_above_root(move_down(h, i, lt), i - 1, lt) ELSE h

RECURSIVE heapify_loop(_, _, _)
heapify_loop(h, i, lt) ==
    IF i > 0 THEN heapify_loop(move_down(h, i, lt), i - 1, lt) ELSE h

heapify(h, lt) == heapify_loop(h, (size(h.m_keys) - 1) \div 2, lt)

\* Every move_down call ends with CASSERT("heap", check_invariant()) (line 131),
\* and heapify ends with one more (line 184).  heapify_asserted is the slot i of
\* the first move_down(i) of heapify's loop whose closing check fails, 0 when
\* every one of them passes.
RECURSIVE heapify_asserted(_, _, _)
heapify_asserted(h, i, lt) ==
    IF i > 0
    THEN IF check_invariant(move_down(h, i, lt), lt)
         THEN heapify_asserted(move_down(h, i, lt), i - 1, lt)
         ELSE i
    ELSE 0

\* heapify's loop from slot i down to slot last: where the arrays are when the
\* closing check of move_down(last) is evaluated.
RECURSIVE heapify_until(_, _, _, _)
heapify_until(h, i, last, lt) ==
    IF i >= last /\ i > 0 THEN heapify_until(move_down(h, i, lt), i - 1, last, lt) ELSE h

get_bounds(h) == size(h.m_indices)

\* unsigned size() const: the length of the index array
heap_size(h) == size(h.m_indices)

\* reserve with its comparison turned round.
reserve_inverted(h, s) == IF s < size(h.m_indices) THEN set_bounds(h, s) ELSE h

reserve(h, s) == IF s > size(h.m_indices) THEN set_bounds(h, s) ELSE h

\* min_value returning the key of the last slot.
min_value_back(h) == back(h.m_keys)

min_value(h) == h.m_keys[1]

\* erase_min without lines 218 and 226: the returned key keeps its index entry.
erase_min_stale(h, lt) ==
    LET res == h.m_keys[1]
    IN  IF size(h.m_keys) = 2
        THEN [h |-> [m_keys |-> pop_back(h.m_keys), m_indices |-> h.m_indices],
              result |-> res]
        ELSE LET last_key == back(h.m_keys)
                 k1 == [h.m_keys EXCEPT ![1] = last_key]
                 i1 == [h.m_indices EXCEPT ![last_key] = 1]
             IN  [h |-> move_down([m_keys |-> pop_back(k1), m_indices |-> i1], 1, lt),
                  result |-> res]

\* erase_min returns [h: the heap afterwards, result: the key returned]
erase_min(h, lt) ==
    LET res == h.m_keys[1]
    IN  IF size(h.m_keys) = 2
        THEN [h |-> [m_keys    |-> pop_back(h.m_keys),
                     m_indices |-> [h.m_indices EXCEPT ![res] = 0]],
              result |-> res]
        ELSE LET last_key == back(h.m_keys)
                 k1 == [h.m_keys EXCEPT ![1] = last_key]
                 i1 == [h.m_indices EXCEPT ![last_key] = 1]
                 i2 == [i1 EXCEPT ![res] = 0]
             IN  [h |-> move_down([m_keys |-> pop_back(k1), m_indices |-> i2], 1, lt),
                  result |-> res]

\* erase without the test of line 249: the moved-in key is only ever sifted down.
erase_down(h, key, lt) ==
    LET idx == h.m_indices[key]
    IN  IF idx = size(h.m_keys) - 1
        THEN [m_keys    |-> pop_back(h.m_keys),
              m_indices |-> [h.m_indices EXCEPT ![key] = 0]]
        ELSE LET last_key == back(h.m_keys)
                 k1 == [h.m_keys EXCEPT ![idx] = last_key]
                 i1 == [h.m_indices EXCEPT ![last_key] = idx]
                 i2 == [i1 EXCEPT ![key] = 0]
             IN  move_down([m_keys |-> pop_back(k1), m_indices |-> i2], idx, lt)

\* erase without line 239: a key erased from the last slot keeps its index entry.
erase_stale(h, key, lt) ==
    LET idx == h.m_indices[key]
    IN  IF idx = size(h.m_keys) - 1
        THEN [m_keys    |-> pop_back(h.m_keys),
              m_indices |-> h.m_indices]
        ELSE LET last_key == back(h.m_keys)
                 k1 == [h.m_keys EXCEPT ![idx] = last_key]
                 i1 == [h.m_indices EXCEPT ![last_key] = idx]
                 i2 == [i1 EXCEPT ![key] = 0]
                 h1 == [m_keys |-> pop_back(k1), m_indices |-> i2]
                 parent_idx == parent(idx)
             IN  IF parent_idx # 0 /\ less_than(lt, last_key, h1.m_keys[parent(idx)])
                 THEN move_up(h1, idx, lt)
                 ELSE move_down(h1, idx, lt)

\* Which way erase(key) goes: "last" (line 238), "move_up" or "move_down" (line 249)
erase_branch(h, key, lt) ==
    LET idx == h.m_indices[key]
    IN  IF idx = size(h.m_keys) - 1
        THEN "last"
        ELSE IF parent(idx) # 0 /\ less_than(lt, back(h.m_keys), h.m_keys[parent(idx)])
             THEN "move_up"
             ELSE "move_down"

erase(h, key, lt) ==
    LET idx == h.m_indices[key]
    IN  IF idx = size(h.m_keys) - 1
        THEN [m_keys    |-> pop_back(h.m_keys),
              m_indices |-> [h.m_indices EXCEPT ![key] = 0]]
        ELSE LET last_key == back(h.m_keys)
                 k1 == [h.m_keys EXCEPT ![idx] = last_key]
                 i1 == [h.m_indices EXCEPT ![last_key] = idx]
                 i2 == [i1 EXCEPT ![key] = 0]
                 h1 == [m_keys |-> pop_back(k1), m_indices |-> i2]
                 parent_idx == parent(idx)
             IN  IF parent_idx # 0 /\ less_than(lt, last_key, h1.m_keys[parent(idx)])
                 THEN move_up(h1, idx, lt)
                 ELSE move_down(h1, idx, lt)

decreased(h, key, lt) == move_up(h, h.m_indices[key], lt)

increased(h, key, lt) == move_down(h, h.m_indices[key], lt)

\* insert without its move_up: the key stays in the last slot.
insert_append(h, key, lt) ==
    [m_keys    |-> push_back(h.m_keys, key),
     m_indices |-> [h.m_indices EXCEPT ![key] = size(h.m_keys)]]

\* insert's body, after its precondition checks
insert(h, key, lt) ==
    LET idx == size(h.m_keys)
    IN  move_up([m_keys    |-> push_back(h.m_keys, key),
                 m_indices |-> [h.m_indices EXCEPT ![key] = idx]],
                idx, lt)

\* find_le's loop keeping only the keys that sort strictly before the threshold.
RECURSIVE find_le_loop_strict(_, _, _, _, _)
find_le_loop_strict(h, key, lt, todo, res) ==
    IF todo = <<>>
    THEN res
    ELSE LET index == todo[Len(todo)]
             rest  == SubSeq(todo, 1, Len(todo) - 1)
         IN  IF index < size(h.m_keys) /\ less_than(lt, h.m_keys[index], key)
             THEN find_le_loop_strict(h, key, lt, rest \o <<left(index), right(index)>>,
                                      Append(res, h.m_keys[index]))
             ELSE find_le_loop_strict(h, key, lt, rest, res)

\* find_le's loop: todo is the work stack (its back is its last element), res the result
RECURSIVE find_le_loop(_, _, _, _, _)
find_le_loop(h, key, lt, todo, res) ==
    IF todo = <<>>
    THEN res
    ELSE LET index == todo[Len(todo)]
             rest  == SubSeq(todo, 1, Len(todo) - 1)
         IN  IF index < size(h.m_keys) /\ ~less_than(lt, key, h.m_keys[index])
             THEN find_le_loop(h, key, lt, rest \o <<left(index), right(index)>>,
                               Append(res, h.m_keys[index]))
             ELSE find_le_loop(h, key, lt, rest, res)

find_le(h, key, lt, res) == find_le_loop(h, key, lt, <<1>>, res)

\* swap: the two arrays change places; the comparators (the LT bases) stay
swap(h, other) == [this |-> other, other |-> h]

-----------------------------------------------------------------------------
(* The calls.  An assertion (SASSERT, CASSERT) exists in a debug build only;  *)
(* when it fails there the program stops at it.  A release build runs the   *)
(* body unchecked.                                                          *)

Keys == 0..(MaxCap - 1)

Prios == 0..MaxPrio

this == [m_keys |-> m_keys, m_indices |-> m_indices]

other == [m_keys |-> o_keys, m_indices |-> o_indices]

KeySet(h) == {h.m_keys[i] : i \in 1..(size(h.m_keys) - 1)}

\* The documented scenario: insert 4, 1, 3; erase_min; insert 0; erase(3); erase_min;
\* and one more erase_min.
Script == << <<"insert", 4>>, <<"insert", 1>>, <<"insert", 3>>, <<"erase_min", -1>>,
             <<"insert", 0>>, <<"erase", 3>>, <<"erase_min", -1>>, <<"erase_min", -1>> >>

ScenNext(name, key) ==
    IF scen >= 0 /\ scen < Len(Script) /\ Script[scen + 1] = <<name, key>>
    THEN scen + 1
    ELSE -1

\* SASSERT(cond) / CASSERT("heap", cond): whether execution goes past it.
SASSERT(cond) == ~debug \/ cond

\* A failed assertion: the program stops where it is.
Abort(name, key) ==
    /\ status' = "assertion"
    /\ op' = <<name, key>>
    /\ scen' = -1
    /\ ret' = -1
    /\ result' = <<>>
    /\ UNCHANGED <<m_keys, m_indices, prio, present, out, start, debug>>

\* An assertion that failed in the middle of a call: the program stops with the
\* arrays as the call had them by then.
AbortIn(h, name, key) ==
    /\ status' = "assertion"
    /\ m_keys' = h.m_keys
    /\ m_indices' = h.m_indices
    /\ op' = <<name, key>>
    /\ scen' = -1
    /\ ret' = -1
    /\ result' = <<>>
    /\ UNCHANGED <<prio, present, out, start, debug>>

\* What a call that went past its assertions leaves behind; c is the record of the
\* call, valid says whether its precondition held.
DoneCall(h, c, valid) ==
    /\ m_keys' = h.m_keys
    /\ m_indices' = h.m_indices
    /\ op' = c
    /\ status' = IF valid THEN "ok" ELSE "unchecked"
    /\ UNCHANGED debug

Done(h, name, key, valid) == DoneCall(h, <<name, key>>, valid)

\* history: in how many slots a call changed the key
Moved(h) ==
    Cardinality({i \in 1..(size(h.m_keys) - 1) :
                    i >= size(m_keys) \/ h.m_keys[i] # m_keys[i]})

\* insert writing the index entry and the new slot before its checks.
InsertWriteFirst(key) ==
    /\ status = "ok"
    /\ m_keys' = insert(this, key, prio).m_keys
    /\ m_indices' = insert(this, key, prio).m_indices
    /\ op' = <<"insert", key>>
    /\ status' = IF SASSERT(~contains(this, key)) /\ SASSERT(is_valid_value(this, key))
                 THEN IF ~contains(this, key) /\ is_valid_value(this, key)
                      THEN "ok" ELSE "unchecked"
                 ELSE "assertion"
    /\ present' = present \cup {key}
    /\ out' = <<>>
    /\ start' = KeySet(this) \cup {key}
    /\ scen' = ScenNext("insert", key)
    /\ ret' = -1 /\ result' = <<>> /\ UNCHANGED <<prio, debug>>

Insert(key) ==
    /\ status = "ok"
    /\ IF SASSERT(~contains(this, key)) /\ SASSERT(is_valid_value(this, key))
       THEN /\ Done(insert(this, key, prio), "insert", key,
                    ~contains(this, key) /\ is_valid_value(this, key))
            /\ present' = present \cup {key}
            /\ out' = <<>>
            /\ start' = KeySet(this) \cup {key}
            /\ scen' = ScenNext("insert", key)
            /\ ret' = -1 /\ result' = <<>> /\ UNCHANGED prio
       ELSE Abort("insert", key)

EraseMin ==
    /\ status = "ok"
    /\ IF SASSERT(~empty(this))
       THEN LET r == erase_min(this, prio)
            IN  /\ Done(r.h, "erase_min", -1, ~empty(this))
                /\ ret' = r.result
                /\ present' = present \ {r.result}
                /\ out' = Append(out, r.result)
                /\ start' = start
                /\ scen' = ScenNext("erase_min", -1)
                /\ result' = <<>> /\ UNCHANGED prio
       ELSE Abort("erase_min", -1)

\* erase(key); the record of the call also says which way it went.
Erase(key) ==
    /\ status = "ok"
    /\ IF SASSERT(contains(this, key))
       THEN LET h == erase(this, key, prio)
            IN  /\ DoneCall(h, <<"erase", key, erase_branch(this, key, prio)>>,
                            contains(this, key))
                /\ present' = present \ {key}
                /\ out' = <<>>
                /\ start' = KeySet(h)
                /\ scen' = ScenNext("erase", key)
                /\ ret' = -1 /\ result' = <<>> /\ UNCHANGED prio
       ELSE Abort("erase", key)

\* The caller lowers the priority of key to p (p = prio[key]: leaves it), then
\* calls decreased(key).
Decreased(key, p) ==
    /\ status = "ok"
    /\ p <= prio[key]
    /\ IF SASSERT(contains(this, key))
       THEN LET lt == [prio EXCEPT ![key] = p]
                h == decreased(this, key, lt)
            IN  /\ Done(h, "decreased", key, contains(this, key))
                /\ prio' = lt
                /\ out' = <<>>
                /\ start' = KeySet(h)
                /\ scen' = ScenNext("decreased", key)
                /\ ret' = -1 /\ result' = <<>> /\ UNCHANGED present
       ELSE Abort("decreased", key)

\* The caller raises the priority of key to p (p = prio[key]: leaves it), then
\* calls increased(key).
Increased(key, p) ==
    /\ status = "ok"
    /\ p >= prio[key]
    /\ IF SASSERT(contains(this, key))
       THEN LET lt == [prio EXCEPT ![key] = p]
                h == increased(this, key, lt)
            IN  /\ Done(h, "increased", key, contains(this, key))
                /\ prio' = lt
                /\ out' = <<>>
                /\ start' = KeySet(h)
                /\ scen' = ScenNext("increased", key)
                /\ ret' = -1 /\ result' = <<>> /\ UNCHANGED present
       ELSE Abort("increased", key)

\* heapify(); the record of the call also says in how many slots the key changed.
Heapify ==
    /\ status = "ok"
    /\ LET n == (size(m_keys) - 1) \div 2
           failed == heapify_asserted(this, n, prio)
           h == heapify(this, prio)
       IN  IF SASSERT(failed = 0)
           THEN /\ DoneCall(h, <<"heapify", -1, Moved(h)>>, TRUE)
                /\ out' = <<>>
                /\ start' = KeySet(h)
                /\ scen' = ScenNext("heapify", -1)
                /\ ret' = -1 /\ result' = <<>> /\ UNCHANGED <<prio, present>>
           ELSE AbortIn(heapify_until(this, n, failed, prio), "heapify", -1)

\* reserve(s); the record of the call also says the capacity it found.
Reserve(s) ==
    /\ status = "ok"
    /\ LET h == reserve(this, s)
       IN  /\ DoneCall(h, <<"reserve", s, get_bounds(this)>>, TRUE)
           /\ out' = <<>>
           /\ start' = KeySet(h)
           /\ scen' = ScenNext("reserve", s)
           /\ ret' = -1 /\ result' = <<>> /\ UNCHANGED <<prio, present>>

Reset ==
    /\ status = "ok"
    /\ LET h == reset(this)
       IN  /\ Done(h, "reset", -1, TRUE)
           /\ present' = {}
           /\ out' = <<>>
           /\ start' = KeySet(h)
           /\ scen' = ScenNext("reset", -1)
           /\ ret' = -1 /\ result' = <<>> /\ UNCHANGED prio

\* The queries leave the histories alone.
MinValue ==
    /\ status = "ok"
    /\ IF SASSERT(~empty(this))
       THEN /\ Done(this, "min_value", -1, ~empty(this))
            /\ ret' = min_value(this)
            /\ result' = <<>> /\ UNCHANGED <<prio, present, out, start, scen>>
       ELSE Abort("min_value", -1)

\* find_le(key, result) with an empty result vector
FindLe(key) ==
    /\ status = "ok"
    /\ Done(this, "find_le", key, TRUE)
    /\ result' = find_le(this, key, prio, <<>>)
    /\ ret' = -1 /\ UNCHANGED <<prio, present, out, start, scen>>

\* insert(key) followed immediately by erase(key)
InsertErase(key) ==
    /\ status = "ok"
    /\ LET h == erase(insert(this, key, prio), key, prio)
       IN  /\ Done(h, "insert_erase", key, TRUE)
           /\ out' = <<>>
           /\ start' = KeySet(h)
           /\ scen' = ScenNext("insert_erase", key)
           /\ ret' = -1 /\ result' = <<>> /\ UNCHANGED <<prio, present>>

\* A call taken in one step: the loop locals are not in the state.
NoLoop == UNCHANGED <<pc, l_idx, l_key, l_i, l_todo, cmp>>

OtherUnchanged == UNCHANGED <<o_keys, o_indices, o_prio, o_ret, reserved>> /\ NoLoop

-----------------------------------------------------------------------------
(* Spec: one heap, called within its preconditions; priorities change only   *)
(* through decreased / increased.                                           *)

InitHistory ==
    /\ ret = -1
    /\ o_ret = -1
    /\ result = <<>>
    /\ op = <<"heap", size(m_indices)>>
    /\ present = {}
    /\ out = <<>>
    /\ start = {}
    /\ scen = IF size(m_indices) = 5 /\ \A k \in DOMAIN m_indices : prio[k] = k THEN 0 ELSE -1
    /\ reserved = FALSE
    /\ status = "ok"
    /\ pc = "idle"
    /\ l_idx = 0
    /\ l_key = -1
    /\ l_i = 0
    /\ l_todo = <<>>
    /\ cmp = {}

NoOther ==
    /\ o_keys = empty_vector
    /\ o_indices = empty_vector
    /\ o_prio = empty_vector

Init ==
    /\ \E s \in 0..MaxCap :
          /\ m_keys = heap(s).m_keys
          /\ m_indices = heap(s).m_indices
    /\ prio \in [Keys -> Prios]
    /\ NoOther
    /\ debug = TRUE
    /\ InitHistory

Next ==
    \/ \E key \in Keys : is_valid_value(this, key) /\ ~contains(this, key)
                         /\ Insert(key) /\ OtherUnchanged
    \/ \E key \in Keys : contains(this, key) /\ Erase(key) /\ OtherUnchanged
    \/ ~empty(this) /\ EraseMin /\ OtherUnchanged
    \/ \E key \in Keys, p \in Prios : contains(this, key) /\ Decreased(key, p) /\ OtherUnchanged
    \/ \E key \in Keys, p \in Prios : contains(this, key) /\ Increased(key, p) /\ OtherUnchanged
    \/ Heapify /\ OtherUnchanged
    \/ \E s \in 0..MaxCap : Reserve(s) /\ OtherUnchanged
    \/ Reset /\ OtherUnchanged
    \/ ~empty(this) /\ MinValue /\ OtherUnchanged
    \/ \E key \in Keys : FindLe(key) /\ OtherUnchanged

Spec == Init /\ [][Next]_vars

-----------------------------------------------------------------------------
\* C1: after any sequence of valid operations every occupied slot i >= 1 has
\* index[position[i]] = i, and every occupied slot i > 1 holds a key that the
\* comparator does not place before the key of its parent slot i / 2.
C1_Invariant ==
    \A i \in 1..(size(m_keys) - 1) :
        /\ m_keys[i] \in DOMAIN m_indices
        /\ m_indices[m_keys[i]] = i
        /\ i > 1 => ~less_than(prio, m_keys[i], m_keys[i \div 2])

C1_Witness ==
    /\ size(m_keys) = 4
    /\ op[1] = "decreased"
    /\ m_indices[op[2]] = 1
    /\ \E i \in 2..3 : less_than(prio, m_keys[1], m_keys[i])

\* C2: erase_min called until the heap is empty returns every key the heap held
\* exactly once, and no returned key sorts strictly before one returned earlier.
C2_ExtractionOrder ==
    LET returned == {out[i] : i \in 1..Len(out)}
    IN  /\ \A i, j \in 1..Len(out) :
              i < j => out[i] # out[j] /\ ~less_than(prio, out[j], out[i])
        /\ returned \cap KeySet(this) = {}
        /\ returned \cup KeySet(this) = start
        /\ empty(this) => returned = start

C2_Witness ==
    /\ empty(this)
    /\ Len(out) = 3
    /\ less_than(prio, out[1], out[3])
    /\ prio[out[1]] = prio[out[2]] \/ prio[out[2]] = prio[out[3]]

\* C3: for every key k in [0, capacity), contains(k) is true iff k has been
\* inserted and not since removed by erase(k), returned by erase_min or dropped
\* by reset; decreased, increased, heapify and reserve do not change the answer.
C3_Membership ==
    /\ present \subseteq DOMAIN m_indices
    /\ \A k \in DOMAIN m_indices : contains(this, k) <=> k \in present

C3_Witness ==
    /\ op[1] = "erase_min"
    /\ present # {}
    /\ ~contains(this, ret)
    /\ \E k \in present : contains(this, k)

-----------------------------------------------------------------------------
(* SpecFix: one heap under a comparator that never changes: ascending       *)
(* integer order, or ascending order of key \div 2 (keys tie in pairs).     *)

FixKeys == 0..(FixCap - 1)

InitFix ==
    /\ \E s \in 1..FixCap :
          /\ m_keys = heap(s).m_keys
          /\ m_indices = heap(s).m_indices
    /\ \E w \in 1..2 : prio = [k \in FixKeys |-> k \div w]
    /\ NoOther
    /\ debug = TRUE
    /\ InitHistory

NextFix ==
    \/ \E key \in FixKeys : is_valid_value(this, key) /\ ~contains(this, key)
                            /\ Insert(key) /\ OtherUnchanged
    \/ \E key \in FixKeys : contains(this, key) /\ Erase(key) /\ OtherUnchanged
    \/ ~empty(this) /\ EraseMin /\ OtherUnchanged
    \/ \E key \in FixKeys : contains(this, key) /\ Decreased(key, prio[key]) /\ OtherUnchanged
    \/ \E key \in FixKeys : contains(this, key) /\ Increased(key, prio[key]) /\ OtherUnchanged
    \/ Heapify /\ OtherUnchanged
    \/ Reset /\ OtherUnchanged
    \/ ~empty(this) /\ MinValue /\ OtherUnchanged
    \/ \E key \in FixKeys : FindLe(key) /\ OtherUnchanged
    \/ \E key \in FixKeys : is_valid_value(this, key) /\ ~contains(this, key)
                            /\ InsertErase(key) /\ OtherUnchanged

SpecFix == InitFix /\ [][NextFix]_vars

\* C4 as stated: with capacity 5 and ascending integer order: after insert 4, 1,
\* 3, min_value() = 1; erase_min() returns 1 and then min_value() = 3; after
\* insert 0, min_value() = 0; after erase(3), erase_min() returns 4 and the heap
\* is empty.
C4_Original ==
    /\ scen = 3 => min_value(this) = 1
    /\ scen = 4 => (op[1] = "erase_min" => ret = 1) /\ min_value(this) = 3
    /\ scen = 5 => min_value(this) = 0
    /\ scen = 7 => (op[1] = "erase_min" => ret = 4) /\ empty(this)

\* C4, amended: with capacity 5 and ascending integer order: after insert 4, 1,
\* 3, min_value() = 1; erase_min() returns 1 and then min_value() = 3; after
\* insert 0, min_value() = 0; after erase(3), erase_min() returns 0 and leaves
\* exactly the key 4; one more erase_min() returns 4 and the heap is empty.
C4_Scenario ==
    /\ scen = 3 => min_value(this) = 1
    /\ scen = 4 => (op[1] = "erase_min" => ret = 1) /\ min_value(this) = 3
    /\ scen = 5 => min_value(this) = 0
    /\ scen = 6 => KeySet(this) = {0, 4}
    /\ scen = 7 => (op[1] = "erase_min" => ret = 0) /\ KeySet(this) = {4}
    /\ scen = 8 => (op[1] = "erase_min" => ret = 4) /\ empty(this)

C4_Witness == scen = 8 /\ op[1] = "erase_min" /\ ret = 4 /\ size(m_indices) = 5

\* C5: find_le(t, result) appends exactly the present keys k with
\* ~less_than(t, k), each once and no other key, and leaves both arrays as they
\* were; on {0,1,2,3,4} in ascending order with t = 2 it yields {0,1,2}.
C5_FindLe ==
    [][op'[1] = "find_le" =>
         LET t == op'[2]
             found == {result'[i] : i \in 1..Len(result')}
         IN  /\ m_keys' = m_keys
             /\ m_indices' = m_indices
             /\ found = {k \in KeySet(this) : ~less_than(prio, t, k)}
             /\ Len(result') = Cardinality(found)]_vars

C5_Witness ==
    /\ op = <<"find_le", 2>>
    /\ KeySet(this) = {0, 1, 2, 3, 4}
    /\ \A k \in 0..4 : prio[k] = k
    /\ {result[i] : i \in 1..Len(result)} = {0, 1, 2}

NoTies(S) == \A a, b \in S : a # b => prio[a] # prio[b]

\* C6 as stated: for any comparator (ties allowed) and any absent in-range key k,
\* insert(k) followed immediately by erase(k) leaves both arrays element for
\* element as they were before the insert.
C6_Original ==
    [][op'[1] = "insert_erase" => m_keys' = m_keys /\ m_indices' = m_indices]_vars

\* C6, amended: the same, when no two distinct keys among the present keys and k
\* tie under the comparator.
C6_RoundTrip ==
    [][(op'[1] = "insert_erase" /\ NoTies(KeySet(this) \cup {op'[2]}))
          => m_keys' = m_keys /\ m_indices' = m_indices]_vars

\* k went up two levels and came out again
C6_Witness ==
    /\ op[1] = "insert_erase"
    /\ size(m_keys) >= 5
    /\ NoTies(KeySet(this) \cup {op[2]})
    /\ less_than(prio, op[2], m_keys[1])

\* C7: for a present key whose priority has not changed, decreased(k) leaves
\* both arrays as they were, and so does increased(k), also when k ties with
\* one of its children.
C7_NoOp ==
    [][(op'[1] \in {"decreased", "increased"} /\ prio' = prio)
          => m_keys' = m_keys /\ m_indices' = m_indices]_vars

-----------------------------------------------------------------------------
(* SpecReserve: side by side, this heap built with capacity c and given      *)
(* reserve(n) at some point, and a second heap built with capacity n > c;   *)
(* both get the same calls and share the comparator.                        *)

OtherDone(h, r) ==
    /\ o_keys' = h.m_keys
    /\ o_indices' = h.m_indices
    /\ o_ret' = r
    /\ o_prio' = prio'
    /\ NoLoop

InitReserve ==
    /\ \E c \in 0..(MaxCap - 1) : \E n \in (c + 1)..MaxCap :
          /\ m_keys = heap(c).m_keys
          /\ m_indices = heap(c).m_indices
          /\ o_keys = heap(n).m_keys
          /\ o_indices = heap(n).m_indices
    /\ prio \in [Keys -> Prios]
    /\ o_prio = prio
    /\ debug = TRUE
    /\ InitHistory

NextReserve ==
    \/ \E key \in Keys : /\ is_valid_value(this, key) /\ ~contains(this, key)
                         /\ Insert(key)
                         /\ OtherDone(insert(other, key, o_prio), -1)
                         /\ UNCHANGED reserved
    \/ \E key \in Keys : /\ contains(this, key)
                         /\ Erase(key)
                         /\ OtherDone(erase(other, key, o_prio), -1)
                         /\ UNCHANGED reserved
    \/ /\ ~empty(this)
       /\ EraseMin
       /\ OtherDone(erase_min(other, o_prio).h, erase_min(other, o_prio).result)
       /\ UNCHANGED reserved
    \/ \E key \in Keys, p \in Prios :
          /\ contains(this, key)
          /\ Decreased(key, p)
          /\ OtherDone(decreased(other, key, [o_prio EXCEPT ![key] = p]), -1)
          /\ UNCHANGED reserved
    \/ \E key \in Keys, p \in Prios :
          /\ contains(this, key)
          /\ Increased(key, p)
          /\ OtherDone(increased(other, key, [o_prio EXCEPT ![key] = p]), -1)
          /\ UNCHANGED reserved
    \/ Heapify /\ OtherDone(heapify(other, o_prio), -1) /\ UNCHANGED reserved
    \/ Reset /\ OtherDone(reset(other), -1) /\ UNCHANGED reserved
    \/ ~empty(this) /\ MinValue /\ OtherDone(other, min_value(other)) /\ UNCHANGED reserved
    \/ /\ ~reserved
       /\ Reserve(size(o_indices))
       /\ reserved' = TRUE
       /\ UNCHANGED <<o_keys, o_indices, o_prio, o_ret>>
       /\ NoLoop

SpecReserve == InitReserve /\ [][NextReserve]_vars

\* C8: once the heap built with capacity c has received reserve(n), n > c, it
\* and the heap built with capacity n have, after every call, the same position
\* array, the same index array and the same return value.
C8_ReserveEquivalent ==
    reserved => /\ m_keys = o_keys
                /\ m_indices = o_indices
                /\ (op[1] # "reserve" => ret = o_ret)

\* a key that the first heap could not hold before the reserve went to the root
C8_Witness ==
    /\ reserved
    /\ op = <<"insert", MaxCap - 1>>
    /\ size(m_keys) >= 3
    /\ m_keys[1] = MaxCap - 1

-----------------------------------------------------------------------------
(* SpecSwap: two heaps, each with a comparator of its own, and swap.         *)

SwapKeys == 0..(SwapCap - 1)

OtherInsert(key) ==
    /\ status = "ok"
    /\ o_keys' = insert(other, key, o_prio).m_keys
    /\ o_indices' = insert(other, key, o_prio).m_indices
    /\ op' = <<"other.insert", key>>
    /\ UNCHANGED <<m_keys, m_indices, prio, o_prio, ret, o_ret, result, present, out,
                   start, scen, reserved, debug, status>>
    /\ NoLoop

\* a.swap(b), a # b
Swap ==
    /\ status = "ok"
    /\ LET r == swap(this, other)
       IN  /\ m_keys' = r.this.m_keys
           /\ m_indices' = r.this.m_indices
           /\ o_keys' = r.other.m_keys
           /\ o_indices' = r.other.m_indices
           /\ present' = KeySet(r.this)
           /\ start' = KeySet(r.this)
    /\ out' = <<>>
    /\ op' = <<"swap", -1>>
    /\ scen' = -1
    /\ ret' = -1
    /\ result' = <<>>
    /\ UNCHANGED <<prio, o_prio, o_ret, reserved, debug, status>>
    /\ NoLoop

InitSwap ==
    /\ \E s \in 1..SwapCap, os \in 1..SwapCap :
          /\ m_keys = heap(s).m_keys
          /\ m_indices = heap(s).m_indices
          /\ o_keys = heap(os).m_keys
          /\ o_indices = heap(os).m_indices
    /\ prio \in [SwapKeys -> Prios]
    /\ o_prio \in [SwapKeys -> Prios]
    /\ debug = TRUE
    /\ InitHistory

NextSwap ==
    \/ \E key \in SwapKeys : is_valid_value(this, key) /\ ~contains(this, key)
                             /\ Insert(key) /\ OtherUnchanged
    \/ \E key \in SwapKeys : is_valid_value(other, key) /\ ~contains(other, key)
                             /\ OtherInsert(key)
    \/ ~empty(this) /\ EraseMin /\ OtherUnchanged
    \/ Swap

SpecSwap == InitSwap /\ [][NextSwap]_vars

IndexInverse(h) ==
    \A i \in 1..(size(h.m_keys) - 1) :
        h.m_keys[i] \in DOMAIN h.m_indices /\ h.m_indices[h.m_keys[i]] = i

HeapOrder(h, lt) ==
    \A i \in 2..(size(h.m_keys) - 1) : ~less_than(lt, h.m_keys[i], h.m_keys[i \div 2])

\* C9: after a.swap(b) each heap satisfies index-inverse and heap order under its
\* own comparator, also when the comparators differ; a holds b's former keys and
\* capacity and b holds a's.
C9_SwapValid ==
    [][op'[1] = "swap" =>
         LET a == [m_keys |-> m_keys', m_indices |-> m_indices']
             b == [m_keys |-> o_keys', m_indices |-> o_indices']
         IN  /\ IndexInverse(a) /\ HeapOrder(a, prio')
             /\ IndexInverse(b) /\ HeapOrder(b, o_prio')
             /\ KeySet(a) = KeySet(other) /\ size(a.m_indices) = size(o_indices)
             /\ KeySet(b) = KeySet(this) /\ size(b.m_indices) = size(m_indices)]_vars

-----------------------------------------------------------------------------
(* SpecViol: one heap, called within and outside its preconditions, in a     *)
(* debug or a release build.  A release build runs a call outside its        *)
(* precondition unchecked; of those calls only insert of a present key stays *)
(* inside both arrays, and it is the one the release build is given here.    *)

InitViol ==
    /\ \E s \in 0..MaxCap :
          /\ m_keys = heap(s).m_keys
          /\ m_indices = heap(s).m_indices
    /\ prio \in [Keys -> Prios]
    /\ NoOther
    /\ debug \in BOOLEAN
    /\ InitHistory

NextViol ==
    \/ \E key \in Keys : (debug \/ is_valid_value(this, key)) /\ Insert(key) /\ OtherUnchanged
    \/ \E key \in Keys : (debug \/ contains(this, key)) /\ Erase(key) /\ OtherUnchanged
    \/ (debug \/ ~empty(this)) /\ EraseMin /\ OtherUnchanged
    \/ (debug \/ ~empty(this)) /\ MinValue /\ OtherUnchanged
    \/ \E key \in Keys : (debug \/ contains(this, key))
                         /\ Decreased(key, prio[key]) /\ OtherUnchanged
    \/ \E key \in Keys : (debug \/ contains(this, key))
                         /\ Increased(key, prio[key]) /\ OtherUnchanged

SpecViol == InitViol /\ [][NextViol]_vars

\* Whether the call c = <<name, argument>> is outside its precondition.
Violation(c) ==
    \/ c[1] = "insert" /\ (contains(this, c[2]) \/ ~(c[2] \in 0..(size(m_indices) - 1)))
    \/ c[1] \in {"erase", "decreased", "increased"} /\ ~contains(this, c[2])
    \/ c[1] \in {"erase_min", "min_value"} /\ empty(this)

-----------------------------------------------------------------------------
(* SpecHeapify: heapify() called on a position array in any order.  The      *)
(* arrays were built under priorities that have changed since, so the keys  *)
(* stand in an arbitrary order with respect to the comparator of now; the   *)
(* index array inverts the position array.  Debug or release build.         *)

\* the sequences of n distinct elements of S
RECURSIVE Arrangements(_, _)
Arrangements(S, n) ==
    IF n = 0
    THEN {<<>>}
    ELSE UNION {{Append(q, x) : x \in S \ {q[i] : i \in 1..Len(q)}} :
                    q \in Arrangements(S, n - 1)}

InitHeapify ==
    /\ \E n \in 0..FixCap : \E q \in Arrangements(FixKeys, n) :
          /\ m_keys = [i \in 0..n |-> IF i = 0 THEN -1 ELSE q[i]]
          /\ m_indices = [k \in FixKeys |->
                            IF \E i \in 1..n : q[i] = k
                            THEN CHOOSE i \in 1..n : q[i] = k
                            ELSE 0]
    /\ \E w \in 1..2 : prio = [k \in FixKeys |-> k \div w]
    /\ NoOther
    /\ debug \in BOOLEAN
    /\ InitHistory

NextHeapify ==
    \/ Heapify /\ OtherUnchanged
    \/ ~empty(this) /\ MinValue /\ OtherUnchanged

SpecHeapify == InitHeapify /\ [][NextHeapify]_vars

-----------------------------------------------------------------------------
(* SpecCap: one heap under a comparator that never changes, with every call  *)
(* that can touch its capacity, and a second heap to swap with.             *)

InitCap ==
    /\ \E s \in 0..SwapCap, os \in 0..SwapCap :
          /\ m_keys = heap(s).m_keys
          /\ m_indices = heap(s).m_indices
          /\ o_keys = heap(os).m_keys
          /\ o_indices = heap(os).m_indices
    /\ \E w \in 1..2 : prio = [k \in SwapKeys |-> k \div w]
    /\ o_prio = prio
    /\ debug = TRUE
    /\ InitHistory

NextCap ==
    \/ \E key \in SwapKeys : is_valid_value(this, key) /\ ~contains(this, key)
                             /\ Insert(key) /\ OtherUnchanged
    \/ \E key \in SwapKeys : contains(this, key) /\ Erase(key) /\ OtherUnchanged
    \/ ~empty(this) /\ EraseMin /\ OtherUnchanged
    \/ \E key \in SwapKeys : contains(this, key) /\ Decreased(key, prio[key]) /\ OtherUnchanged
    \/ \E key \in SwapKeys : contains(this, key) /\ Increased(key, prio[key]) /\ OtherUnchanged
    \/ Heapify /\ OtherUnchanged
    \/ \E s \in 0..SwapCap : Reserve(s) /\ OtherUnchanged
    \/ Reset /\ OtherUnchanged
    \/ ~empty(this) /\ MinValue /\ OtherUnchanged
    \/ \E key \in SwapKeys : FindLe(key) /\ OtherUnchanged
    \/ Swap

SpecCap == InitCap /\ [][NextCap]_vars

\* C12 as stated: no public operation ever decreases size().
C12_Original ==
    [][heap_size([m_keys |-> m_keys', m_indices |-> m_indices']) >= heap_size(this)]_vars

\* C12, amended: size() is the length of the index array; insert, erase,
\* erase_min, decreased, increased, heapify, find_le, min_value and reset leave
\* it unchanged; reserve(n) leaves it unchanged when n <= capacity and otherwise
\* sets it to n, with every new key absent, the old index entries kept and the
\* position array untouched.  (swap exchanges the two capacities.)
C12_Size ==
    [][LET h == [m_keys |-> m_keys', m_indices |-> m_indices']
           old == heap_size(this)
       IN  /\ heap_size(h) = Cardinality(DOMAIN m_indices') /\ heap_size(h) = get_bounds(h)
           /\ op'[1] \in {"insert", "erase", "erase_min", "decreased", "increased",
                          "heapify", "find_le", "min_value", "reset"}
                 => heap_size(h) = old
           /\ op'[1] = "reserve" =>
                 IF op'[2] <= old
                 THEN heap_size(h) = old /\ m_indices' = m_indices /\ m_keys' = m_keys
                 ELSE /\ heap_size(h) = op'[2]
                      /\ \A k \in old..(op'[2] - 1) : ~contains(h, k)
                      /\ \A k \in 0..(old - 1) : m_indices'[k] = m_indices[k]
                      /\ m_keys' = m_keys
           /\ op'[1] = "swap" => heap_size(h) = size(o_indices)]_vars

\* reserve(SwapCap) found a smaller capacity on a heap holding a key
C12_Witness ==
    /\ op[1] = "reserve"
    /\ op[2] = SwapCap
    /\ op[3] < SwapCap
    /\ heap_size(this) = SwapCap
    /\ ~empty(this)
    /\ ~contains(this, SwapCap - 1)

-----------------------------------------------------------------------------
\* C13: on a non-empty heap reached by valid operations, min_value() returns a
\* present key m such that no present key k has less_than(k, m), and it changes
\* neither array.
C13_MinValue ==
    [][(op'[1] = "min_value" /\ ~empty(this)) =>
         /\ ret' \in KeySet(this)
         /\ contains(this, ret')
         /\ \A k \in DOMAIN m_indices : contains(this, k) => ~less_than(prio, k, ret')
         /\ m_keys' = m_keys
         /\ m_indices' = m_indices]_vars

\* min_value() on a full heap whose minimum is strict and not held by key 0
C13_Witness ==
    /\ op[1] = "min_value"
    /\ size(m_keys) = MaxCap + 1
    /\ ret # 0
    /\ \A k \in KeySet(this) \ {ret} : less_than(prio, ret, k)

-----------------------------------------------------------------------------
(* SpecSteps: the calls of SpecFix with their loops taken one iteration at a *)
(* time.  A call runs from "idle" up to its first loop; each loop iteration *)
(* is a step; the step that leaves the last loop of the call returns.       *)

StepFrame ==
    UNCHANGED <<prio, o_keys, o_indices, o_prio, o_ret, present, out, start, scen,
                reserved, debug, status>>

\* move_up(idx) / move_down(idx) entered with the arrays h: lines 80, 100
EnterLoop(h, loop, idx) ==
    /\ pc' = loop
    /\ l_idx' = idx
    /\ l_key' = h.m_keys[idx]
    /\ m_keys' = h.m_keys
    /\ m_indices' = h.m_indices

\* the call returns with the arrays h
Return(h) ==
    /\ pc' = "idle"
    /\ l_idx' = 0
    /\ l_key' = -1
    /\ m_keys' = h.m_keys
    /\ m_indices' = h.m_indices

\* line 86 calling less_than before it looks at parent_idx.
move_up_compares_eager(parent_idx, key, parent_key) == {key, parent_key}

\* The keys line 86 passes to less_than: none when parent_idx == 0 (the || stops).
move_up_compares(parent_idx, key, parent_key) ==
    IF parent_idx = 0 THEN {} ELSE {key, parent_key}

\* The keys lines 115 and 122 pass to less_than, in a slot idx that has a child.
move_down_compares(h, idx, key, lt) ==
    (IF right(idx) < size(h.m_keys) THEN {h.m_keys[right(idx)], h.m_keys[left(idx)]} ELSE {})
        \cup {key, h.m_keys[min_child(h, idx, lt)]}

CallInsert(key) ==
    /\ status = "ok" /\ pc = "idle"
    /\ LET idx == size(m_keys)
       IN  EnterLoop([m_keys    |-> push_back(m_keys, key),
                      m_indices |-> [m_indices EXCEPT ![key] = idx]],
                     "move_up", idx)
    /\ op' = <<"insert", key>>
    /\ cmp' = {} /\ ret' = -1 /\ result' = <<>>
    /\ UNCHANGED <<l_i, l_todo>> /\ StepFrame

CallErase(key) ==
    /\ status = "ok" /\ pc = "idle"
    /\ LET idx == m_indices[key]
       IN  IF idx = size(m_keys) - 1
           THEN /\ Return([m_keys    |-> pop_back(m_keys),
                           m_indices |-> [m_indices EXCEPT ![key] = 0]])
                /\ cmp' = {}
           ELSE LET last_key == back(m_keys)
                    h == [m_keys    |-> pop_back([m_keys EXCEPT ![idx] = last_key]),
                          m_indices |-> [m_indices EXCEPT ![last_key] = idx, ![key] = 0]]
                    parent_idx == parent(idx)
                IN  /\ cmp' = IF parent_idx # 0
                              THEN {last_key, h.m_keys[parent(idx)]}
                              ELSE {}
                    /\ IF parent_idx # 0 /\ less_than(prio, last_key, h.m_keys[parent(idx)])
                       THEN EnterLoop(h, "move_up", idx)
                       ELSE EnterLoop(h, "move_down", idx)
    /\ op' = <<"erase", key>>
    /\ ret' = -1 /\ result' = <<>>
    /\ UNCHANGED <<l_i, l_todo>> /\ StepFrame

CallEraseMin ==
    /\ status = "ok" /\ pc = "idle"
    /\ LET res == m_keys[1]
       IN  /\ IF size(m_keys) = 2
              THEN Return([m_keys    |-> pop_back(m_keys),
                           m_indices |-> [m_indices EXCEPT ![res] = 0]])
              ELSE LET last_key == back(m_keys)
                   IN  EnterLoop([m_keys    |-> pop_back([m_keys EXCEPT ![1] = last_key]),
                                  m_indices |-> [m_indices EXCEPT ![last_key] = 1,
                                                                  ![res] = 0]],
                                 "move_down", 1)
           /\ ret' = res
    /\ op' = <<"erase_min", -1>>
    /\ cmp' = {} /\ result' = <<>>
    /\ UNCHANGED <<l_i, l_todo>> /\ StepFrame

CallDecreased(key) ==
    /\ status = "ok" /\ pc = "idle"
    /\ EnterLoop(this, "move_up", m_indices[key])
    /\ op' = <<"decreased", key>>
    /\ cmp' = {} /\ ret' = -1 /\ result' = <<>>
    /\ UNCHANGED <<l_i, l_todo>> /\ StepFrame

CallIncreased(key) ==
    /\ status = "ok" /\ pc = "idle"
    /\ EnterLoop(this, "move_down", m_indices[key])
    /\ op' = <<"increased", key>>
    /\ cmp' = {} /\ ret' = -1 /\ result' = <<>>
    /\ UNCHANGED <<l_i, l_todo>> /\ StepFrame

CallHeapify ==
    /\ status = "ok" /\ pc = "idle"
    /\ LET n == size(m_keys) - 1
       IN  IF n \div 2 > 0
           THEN EnterLoop(this, "move_down", n \div 2) /\ l_i' = n \div 2
           ELSE Return(this) /\ l_i' = 0
    /\ op' = <<"heapify", -1>>
    /\ cmp' = {} /\ ret' = -1 /\ result' = <<>>
    /\ UNCHANGED l_todo /\ StepFrame

CallFindLe(key) ==
    /\ status = "ok" /\ pc = "idle"
    /\ pc' = "find_le"
    /\ l_todo' = push_back(empty_vector, 1)
    /\ result' = <<>>
    /\ op' = <<"find_le", key>>
    /\ cmp' = {} /\ ret' = -1
    /\ UNCHANGED <<m_keys, m_indices, l_idx, l_key, l_i>> /\ StepFrame

\* reset() has no loop and makes no comparison
CallReset ==
    /\ pc = "idle"
    /\ Reset
    /\ cmp' = {}
    /\ UNCHANGED <<o_keys, o_indices, o_prio, o_ret, reserved, pc, l_idx, l_key, l_i, l_todo>>

\* One iteration of move_up's loop in which the moving key never changes slot
\* (no line 91).
MoveUpStepStay ==
    /\ status = "ok" /\ pc = "move_up"
    /\ LET parent_idx == parent(l_idx)
           parent_key == m_keys[parent_idx]
       IN  /\ cmp' = move_up_compares(parent_idx, l_key, parent_key)
           /\ IF parent_idx = 0 \/ ~less_than(prio, l_key, parent_key)
              THEN Return([m_keys    |-> [m_keys EXCEPT ![l_idx] = l_key],
                           m_indices |-> [m_indices EXCEPT ![l_key] = l_idx]])
              ELSE /\ m_keys' = [m_keys EXCEPT ![l_idx] = parent_key]
                   /\ m_indices' = [m_indices EXCEPT ![parent_key] = l_idx]
                   /\ UNCHANGED <<pc, l_idx, l_key>>
    /\ UNCHANGED <<op, ret, result, l_i, l_todo>> /\ StepFrame

\* One iteration of move_up's loop (lines 83-91), or its exit (lines 93-96).
MoveUpStep ==
    /\ status = "ok" /\ pc = "move_up"
    /\ LET parent_idx == parent(l_idx)
           parent_key == m_keys[parent_idx]
       IN  /\ cmp' = move_up_compares(parent_idx, l_key, parent_key)
           /\ IF parent_idx = 0 \/ ~less_than(prio, l_key, parent_key)
              THEN Return([m_keys    |-> [m_keys EXCEPT ![l_idx] = l_key],
                           m_indices |-> [m_indices EXCEPT ![l_key] = l_idx]])
              ELSE /\ m_keys' = [m_keys EXCEPT ![l_idx] = parent_key]
                   /\ m_indices' = [m_indices EXCEPT ![parent_key] = l_idx]
                   /\ l_idx' = parent_idx
                   /\ UNCHANGED <<pc, l_key>>
    /\ UNCHANGED <<op, ret, result, l_i, l_todo>> /\ StepFrame

\* move_down has put the moving key down (lines 129-131): inside heapify the
\* loop of lines 181-183 goes on with the next i, otherwise the call returns.
LeaveMoveDown(h) ==
    IF l_i > 1
    THEN EnterLoop(h, "move_down", l_i - 1) /\ l_i' = l_i - 1
    ELSE Return(h) /\ l_i' = 0

\* One iteration of move_down's loop (lines 104-127), or its exit.
MoveDownStep ==
    /\ status = "ok" /\ pc = "move_down"
    /\ IF left(l_idx) >= size(m_keys)
       THEN /\ cmp' = {}
            /\ LeaveMoveDown([m_keys    |-> [m_keys EXCEPT ![l_idx] = l_key],
                              m_indices |-> [m_indices EXCEPT ![l_key] = l_idx]])
       ELSE LET min_idx == min_child(this, l_idx, prio)
                min_key == m_keys[min_idx]
            IN  /\ cmp' = move_down_compares(this, l_idx, l_key, prio)
                /\ IF move_down_stops(prio, l_key, min_key)
                   THEN LeaveMoveDown([m_keys    |-> [m_keys EXCEPT ![l_idx] = l_key],
                                       m_indices |-> [m_indices EXCEPT ![l_key] = l_idx]])
                   ELSE /\ m_keys' = [m_keys EXCEPT ![l_idx] = min_key]
                        /\ m_indices' = [m_indices EXCEPT ![min_key] = l_idx]
                        /\ l_idx' = min_idx
                        /\ UNCHANGED <<pc, l_key, l_i>>
    /\ UNCHANGED <<op, ret, result, l_todo>> /\ StepFrame

\* One iteration of find_le's loop (lines 314-321); the threshold is op[2].
FindLeStep ==
    /\ status = "ok" /\ pc = "find_le"
    /\ LET index == back(l_todo)
           rest == pop_back(l_todo)
           inside == index < size(m_keys)
           todo == IF inside /\ ~less_than(prio, op[2], m_keys[index])
                   THEN push_back(push_back(rest, left(index)), right(index))
                   ELSE rest
       IN  /\ cmp' = IF inside THEN {m_keys[index]} ELSE {}
           /\ result' = IF inside /\ ~less_than(prio, op[2], m_keys[index])
                        THEN Append(result, m_keys[index])
                        ELSE result
           /\ l_todo' = todo
           /\ pc' = IF size(todo) = 0 THEN "idle" ELSE "find_le"
    /\ UNCHANGED <<m_keys, m_indices, op, ret, l_idx, l_key, l_i>> /\ StepFrame

NextSteps ==
    \/ \E key \in FixKeys : is_valid_value(this, key) /\ ~contains(this, key) /\ CallInsert(key)
    \/ \E key \in FixKeys : contains(this, key) /\ CallErase(key)
    \/ ~empty(this) /\ CallEraseMin
    \/ \E key \in FixKeys : contains(this, key) /\ CallDecreased(key)
    \/ \E key \in FixKeys : contains(this, key) /\ CallIncreased(key)
    \/ CallHeapify
    \/ \E key \in FixKeys : CallFindLe(key)
    \/ CallReset
    \/ MoveUpStep
    \/ MoveDownStep
    \/ FindLeStep

InitSteps ==
    /\ m_keys = heap(FixCap).m_keys
    /\ m_indices = heap(FixCap).m_indices
    /\ \E w \in 1..2 : prio = [k \in FixKeys |-> k \div w]
    /\ NoOther
    /\ debug = TRUE
    /\ InitHistory

SpecSteps == InitSteps /\ [][NextSteps]_vars

\* A loop that has been entered goes on running.
SpecStepsFair == SpecSteps /\ WF_vars(MoveUpStep \/ MoveDownStep \/ FindLeStep)

\* What find_le still has to do for the stack entry i of a heap with slots
\* 1..n-1: the entries it pops for it and for everything it can push in turn.
RECURSIVE Work(_, _)
Work(i, n) == IF i < n THEN 1 + Work(2 * i, n) + Work(2 * i + 1, n) ELSE 1

RECURSIVE TotalWork(_, _)
TotalWork(todo, n) ==
    IF size(todo) = 0 THEN 0 ELSE Work(back(todo), n) + TotalWork(pop_back(todo), n)

\* C14: every call terminates: while move_up loops the slot strictly decreases
\* and stays >= 1, while move_down loops the slot strictly increases and stays
\* inside the position array, heapify's i strictly decreases, every iteration
\* of find_le lessens the work its stack stands for, and every call that has
\* entered a loop returns.
C14_Terminates ==
    /\ [][/\ (pc = "move_up" /\ pc' = "move_up") => (l_idx' < l_idx /\ l_idx' >= 1)
          /\ (pc = "move_down" /\ pc' = "move_down") =>
                 IF l_i' = l_i
                 THEN l_idx' > l_idx /\ l_idx' < size(m_keys)
                 ELSE l_i' < l_i /\ l_i' >= 1
          /\ pc = "find_le" =>
                 TotalWork(l_todo', size(m_keys)) < TotalWork(l_todo, size(m_keys))]_vars
    /\ [](pc # "idle" => <>(pc = "idle"))

\* move_up has carried an inserted key up two levels and is still running
C14_Witness ==
    /\ pc = "move_up"
    /\ op[1] = "insert"
    /\ l_idx = 1
    /\ size(m_keys) >= 5
    /\ l_key = op[2]

Tied(lt, v1, v2) == ~less_than(lt, v1, v2) /\ ~less_than(lt, v2, v1)

\* C15: ties never trigger a swap: when move_up compares the moving key with a
\* parent it ties with, or move_down compares it with a child it ties with, the
\* moving key is put down in its current slot and the loop stops.
C15_TiesStop ==
    [][/\ (pc = "move_up" /\ parent(l_idx) # 0 /\ Tied(prio, l_key, m_keys[parent(l_idx)]))
            => (pc' # "move_up" /\ m_keys'[l_idx] = l_key /\ m_indices'[l_key] = l_idx)
       /\ (pc = "move_down" /\ left(l_idx) < size(m_keys)
              /\ Tied(prio, l_key, m_keys[min_child(this, l_idx, prio)]))
            => (m_keys'[l_idx] = l_key /\ m_indices'[l_key] = l_idx)]_vars

-----------------------------------------------------------------------------
\* C16: erase(key) of a present key removes exactly that key: afterwards
\* contains(key) is false, every other key is present iff it was, the element
\* count is one less, the index array inverts the position array and heap order
\* holds; also when the key moved in from the last slot has to go up, and when
\* the erased key is in the last slot.
C16_Erase ==
    [][(op'[1] = "erase" /\ contains(this, op'[2])) =>
         LET h == [m_keys |-> m_keys', m_indices |-> m_indices']
         IN  /\ ~contains(h, op'[2])
             /\ \A k \in DOMAIN m_indices \ {op'[2]} : contains(h, k) <=> contains(this, k)
             /\ KeySet(h) = KeySet(this) \ {op'[2]}
             /\ size(h.m_keys) = size(m_keys) - 1
             /\ DOMAIN m_indices' = DOMAIN m_indices
             /\ IndexInverse(h)
             /\ HeapOrder(h, prio')]_vars

\* the key moved in from the last slot came from the other subtree and went up
C16_Witness ==
    /\ op[1] = "erase"
    /\ op[3] = "move_up"
    /\ size(m_keys) = FixCap
    /\ ~contains(this, op[2])
    /\ less_than(prio, m_keys[3], m_keys[2])
    /\ IndexInverse(this) /\ HeapOrder(this, prio)

-----------------------------------------------------------------------------
(* SpecContains: one heap called within its preconditions, and contains(key) *)
(* asked for any integer key.  contains has no assertion; where it reads    *)
(* m_indices outside the array the behaviour is undefined: the call may      *)
(* return either answer, or the program may stop on the bad read.           *)

\* The entries of m_indices that contains(key) reads: line 161 reads
\* m_indices[key] whenever key < m_indices.size().
contains_reads(h, key) == IF key < size(h.m_indices) THEN {key} ELSE {}

Contains(key) ==
    /\ status = "ok"
    /\ op' = <<"contains", key>>
    /\ IF contains_reads(this, key) \subseteq DOMAIN m_indices
       THEN /\ ret' = IF contains(this, key) THEN 1 ELSE 0
            /\ status' = "ok"
       ELSE \E outcome \in {"true", "false", "fault"} :
               /\ ret' = CASE outcome = "true" -> 1
                            [] outcome = "false" -> 0
                            [] outcome = "fault" -> -1
               /\ status' = IF outcome = "fault" THEN "fault" ELSE "ok"
    /\ result' = <<>>
    /\ UNCHANGED <<m_keys, m_indices, prio, present, out, start, scen, debug>>

InitContains == Init

NextContains ==
    \/ \E key \in Keys : is_valid_value(this, key) /\ ~contains(this, key)
                         /\ Insert(key) /\ OtherUnchanged
    \/ \E key \in Keys : contains(this, key) /\ Erase(key) /\ OtherUnchanged
    \/ ~empty(this) /\ EraseMin /\ OtherUnchanged
    \/ Reset /\ OtherUnchanged
    \/ \E key \in (-2)..(MaxCap + 1) : Contains(key) /\ OtherUnchanged

SpecContains == InitContains /\ [][NextContains]_vars

\* C17: contains(key) is total: for every integer key outside [0, capacity),
\* negative or >= capacity, it returns false without reading outside the index
\* array or failing; for a key inside it returns true iff the index entry is
\* not 0.
C17_Total ==
    [][op'[1] = "contains" =>
         /\ status' = "ok"
         /\ contains_reads(this, op'[2]) \subseteq DOMAIN m_indices
         /\ ret' = IF op'[2] \in DOMAIN m_indices /\ m_indices[op'[2]] # 0 THEN 1 ELSE 0
         /\ m_keys' = m_keys /\ m_indices' = m_indices]_vars

-----------------------------------------------------------------------------
\* C18: the index array has no stale entries: in every state reached by valid
\* operations, a key k in [0, capacity) with index[k] # 0 has index[k] an
\* occupied slot and position[index[k]] = k; the keys with a non-zero index
\* entry are as many as the occupied slots; no key occupies two slots; and an
\* empty heap has an all-zero index array.
C18_NoStale ==
    /\ \A k \in DOMAIN m_indices :
          m_indices[k] # 0 => /\ m_indices[k] \in 1..(size(m_keys) - 1)
                              /\ m_keys[m_indices[k]] = k
    /\ Cardinality({k \in DOMAIN m_indices : m_indices[k] # 0}) = size(m_keys) - 1
    /\ \A i, j \in 1..(size(m_keys) - 1) : i # j => m_keys[i] # m_keys[j]
    /\ empty(this) => \A k \in DOMAIN m_indices : m_indices[k] = 0

\* a key erased from the last slot of a heap that held others
C18_Witness ==
    /\ op[1] = "erase"
    /\ op[3] = "last"
    /\ size(m_keys) = MaxCap
    /\ m_indices[op[2]] = 0
    /\ \E k \in DOMAIN m_indices : m_indices[k] # 0

-----------------------------------------------------------------------------
\* C19: every whole-heap check_invariant assertion holds when it is reached from
\* a public operation called within its preconditions; so no such call stops
\* on an assertion, and in particular the check that ends each move_down call
\* made by heapify() passes whatever order the position array starts in.
C19_ChecksPass ==
    [][(status = "ok" /\ ~Violation(op')) =>
          /\ status' # "assertion"
          /\ op'[1] = "heapify" =>
                heapify_asserted(this, (size(m_keys) - 1) \div 2, prio) = 0]_vars

-----------------------------------------------------------------------------
\* The keys check_invariant_core passes to less_than (line 60): those of a slot
\* and of its parent, for every occupied slot whose parent is not slot 0.
check_invariant_compares(h) ==
    UNION {IF parent(idx) = 0 THEN {} ELSE {h.m_keys[idx], h.m_keys[parent(idx)]} :
               idx \in 1..(size(h.m_keys) - 1)}

\* C20: the comparator is never called with the sentinel -1 of slot 0 or with a
\* key that is not present (the threshold of find_le aside): the keys that
\* move_up, move_down, erase, find_le and check_invariant_core pass to it are
\* keys with a non-zero index entry, and no comparison is made with the parent
\* when the parent slot is 0.
C20_ComparatorArgs ==
    LET Present == {k \in DOMAIN m_indices : m_indices[k] # 0}
    IN  /\ -1 \notin cmp
        /\ cmp \subseteq Present
        /\ pc = "move_up" => l_idx >= 1
        /\ pc = "idle" => /\ -1 \notin check_invariant_compares(this)
                          /\ check_invariant_compares(this) \subseteq Present

\* move_up has reached slot 1 with an inserted key and made no comparison there
C20_Witness ==
    /\ pc = "idle"
    /\ op[1] = "insert"
    /\ cmp = {}
    /\ size(m_keys) >= 4
    /\ m_keys[1] = op[2]

====
